---- MODULE Spec2Model ----
(***************************************************************************)
(* Model of task/client.py: DialClient, a chat-completion client with a    *)
(* tool-calling loop.  The constructor, get_completion (one step per       *)
(* blocking call it makes), _process_tool_calls (one step per loop         *)
(* iteration) and _call_tool are translated from the source.  The remote   *)
(* model and the registered tools are the environment: their answers are   *)
(* drawn from small sets.                                                  *)
(*                                                                         *)
(* Python values: a str that the code inspects character by character      *)
(* (api_key, a tool call's arguments) is a sequence of one-character       *)
(* strings; other strs are TLA+ strings; None is NONE for a str-or-None    *)
(* field and Null for a list-or-None value.                                *)
(***************************************************************************)
EXTENDS Integers, Sequences, FiniteSets, TLC

\* ---------------------------------------------------------------- bounds
\* Largest number of tool calls the remote model asks for in one run, over
\* all its responses.
MaxCalls == 2
\* Largest number of HTTP requests of one get_completion run that the model
\* explores (the code itself has no limit).
MaxRequests == 3

\* ------------------------------------------------------- Python values
NONE == "<None>"
Null == [some |-> FALSE, val |-> <<>>]
Some(v) == [some |-> TRUE, val |-> v]

\* Python truthiness of a list-or-None / str-or-None value.
Truthy(opt) == opt.some /\ Len(opt.val) > 0

IsPrefix(s, t) == Len(s) <= Len(t) /\ SubSeq(t, 1, Len(s)) = s

\* str(int) for a non-negative int, as an f-string renders it.
Digit(d) == CASE d = 0 -> "0" [] d = 1 -> "1" [] d = 2 -> "2" [] d = 3 -> "3"
              [] d = 4 -> "4" [] d = 5 -> "5" [] d = 6 -> "6" [] d = 7 -> "7"
              [] d = 8 -> "8" [] d = 9 -> "9"
RECURSIVE IntToStr(_)
IntToStr(n) == IF n < 10 THEN Digit(n) ELSE IntToStr(n \div 10) \o Digit(n % 10)

\* ------------------------------------------------------------ str.strip
Whitespace == {" ", "\t", "\n"}
RECURSIVE LStrip(_)
LStrip(s) == IF s # <<>> /\ Head(s) \in Whitespace THEN LStrip(Tail(s)) ELSE s
RECURSIVE RStrip(_)
RStrip(s) == IF s # <<>> /\ s[Len(s)] \in Whitespace
             THEN RStrip(SubSeq(s, 1, Len(s) - 1)) ELSE s
Strip(s) == RStrip(LStrip(s))

\* ----------------------------------------------------------- json.loads
\* The JSON documents the remote model sends as arguments: an object of
\* one-letter keys and one-digit values, or a bare digit.  Anything else is
\* a JSONDecodeError.  The parser is a left-to-right scan, as json.loads.
JsonDigits == {"0", "1", "2", "3", "4", "5", "6", "7", "8", "9"}
JsonKeys == {"a", "b", "c"}
DigitVal(c) == CHOOSE d \in 0..9 : Digit(d) = c
\* A parsed document: a dict (items) or an int (n).
JsonDict(items) == [type |-> "dict", items |-> items, n |-> 0]
JsonInt(n) == [type |-> "int", items |-> <<>>, n |-> n]
JsonError == [ok |-> FALSE, value |-> JsonInt(0)]
JsonOk(v) == [ok |-> TRUE, value |-> v]

\* s[p..] starts with  "k":d  ; the position after it, or 0.
PairEnd(s, p) == IF /\ p + 4 <= Len(s)
                    /\ s[p] = "\"" /\ s[p + 1] \in JsonKeys /\ s[p + 2] = "\""
                    /\ s[p + 3] = ":" /\ s[p + 4] \in JsonDigits
                 THEN p + 5 ELSE 0

\* Members of an object from position p on, acc the mapping read so far (a
\* repeated key keeps its last value, as a Python dict does).
RECURSIVE JsonMembers(_, _, _)
JsonMembers(s, p, acc) ==
    LET q == PairEnd(s, p) IN
    IF q = 0 THEN JsonError
    ELSE LET acc2 == (s[p + 1] :> DigitVal(s[p + 4])) @@ acc IN
         IF q = Len(s) /\ s[q] = "}" THEN JsonOk(JsonDict(acc2))
         ELSE IF q < Len(s) /\ s[q] = "," THEN JsonMembers(s, q + 1, acc2)
         ELSE JsonError

\* Mutant: a document that does not parse is taken as {}.
JsonLoadsLenient(s) ==
    IF Len(s) = 1 /\ s[1] \in JsonDigits THEN JsonOk(JsonInt(DigitVal(s[1])))
    ELSE IF Len(s) > 2 /\ s[1] = "{" /\ JsonMembers(s, 2, <<>>).ok
         THEN JsonMembers(s, 2, <<>>)
    ELSE JsonOk(JsonDict(<<>>))
JsonLoads(s) ==
    IF Len(s) = 1 /\ s[1] \in JsonDigits THEN JsonOk(JsonInt(DigitVal(s[1])))
    ELSE IF Len(s) >= 2 /\ s[1] = "{"
         THEN IF Len(s) = 2 /\ s[2] = "}" THEN JsonOk(JsonDict(<<>>))
              ELSE JsonMembers(s, 2, <<>>)
    ELSE JsonError

\* ---------------------------------------------------------------- tools
\* A tool is a name, a schema and an execute function.  impl names what its
\* execute does: "add" and "addB" are two different tools that both answer
\* with a string, "raise" is a tool whose execute raises.
SumA == [name |-> "sum", schema |-> "sum(a,b)", impl |-> "add"]
SumB == [name |-> "sum", schema |-> "sum2(a,b)", impl |-> "addB"]
Boom == [name |-> "boom", schema |-> "boom()", impl |-> "raise"]

Returned(str) == [raised |-> FALSE, out |-> str]
Raised(kind) == [raised |-> TRUE, out |-> kind]

\* tool.execute(arguments): a string, or an exception the tool lets escape.
Execute(tool, arguments) ==
    LET args == arguments.items
        sum == IF arguments.type = "dict" /\ {"a", "b"} \subseteq DOMAIN args
               THEN IntToStr(args["a"] + args["b"])
               ELSE "Error: bad arguments"
    IN CASE tool.impl = "add" -> Returned(sum)
         [] tool.impl = "addB" -> Returned("B" \o sum)
         [] tool.impl = "raise" -> Raised("RuntimeError")

\* ---------------------------------------------------------- construction
\* Mutant: the first tool of a name is kept.
RECURSIVE DictOfToolsFirstWins(_, _)
DictOfToolsFirstWins(tools, acc) ==
    IF tools = <<>> THEN acc
    ELSE DictOfToolsFirstWins(Tail(tools), acc @@ (Head(tools).name :> Head(tools)))
\* {tool.name: tool for tool in tools}: a later tool replaces an earlier one
\* of the same name.
RECURSIVE DictOfTools(_, _)
DictOfTools(tools, acc) ==
    IF tools = <<>> THEN acc
    ELSE DictOfTools(Tail(tools), (Head(tools).name :> Head(tools)) @@ acc)

\* [tool.schema for tool in tools]
SchemasOfTools(tools) == [k \in 1..Len(tools) |-> tools[k].schema]

\* not api_key or api_key.strip() == ""
BadApiKey(api_key) == \/ ~Truthy(api_key)
                      \/ Strip(api_key.val) = <<>>

\* f"{endpoint}/openai/deployments/{deployment_name}/chat/completions"
EndpointOf(endpoint, deployment_name) ==
    endpoint \o "/openai/deployments/" \o deployment_name \o "/chat/completions"

\* The outcome of DialClient(endpoint, deployment_name, api_key, tools).
NoClient == [endpoint |-> NONE, api_key |-> Null, tools_dict |-> <<>>,
             tools_schemas |-> <<>>]
NewClient(endpoint, deployment_name, api_key, tools) ==
    IF BadApiKey(api_key)
    THEN [error |-> [type |-> "ValueError",
                     text |-> "API key cannot be null or empty"],
          client |-> NoClient]
    ELSE IF ~tools.some
    THEN \* iterating None in the comprehension of line 30
         [error |-> [type |-> "TypeError",
                     text |-> "'NoneType' object is not iterable"],
          client |-> NoClient]
    ELSE [error |-> [type |-> NONE, text |-> NONE],
          client |-> [endpoint |-> EndpointOf(endpoint, deployment_name),
                      api_key |-> api_key,
                      tools_dict |-> DictOfTools(tools.val, <<>>),
                      tools_schemas |-> SchemasOfTools(tools.val)]]

\* -------------------------------------------------------------- messages
\* Message(role, content, tool_calls, name, tool_call_id); a field that is
\* not given is None.
Message(role, content, tool_calls, name, tool_call_id) ==
    [role |-> role, content |-> content, tool_calls |-> tool_calls,
     name |-> name, tool_call_id |-> tool_call_id]

\* Message.to_dict(): the wire object; tool_calls, name and tool_call_id are
\* left out when they are None.
RoleValue(role) == CASE role = "SYSTEM" -> "system" [] role = "USER" -> "user"
                     [] role = "AI" -> "assistant" [] role = "TOOL" -> "tool"
ToDict(msg) ==
    [role |-> RoleValue(msg.role), content |-> msg.content]
      @@ (IF msg.tool_calls.some THEN [tool_calls |-> msg.tool_calls.val] ELSE <<>>)
      @@ (IF msg.name # NONE THEN [name |-> msg.name] ELSE <<>>)
      @@ (IF msg.tool_call_id # NONE THEN [tool_call_id |-> msg.tool_call_id] ELSE <<>>)

\* [msg.to_dict() for msg in messages]
ToDicts(msgs) == [k \in 1..Len(msgs) |-> ToDict(msgs[k])]

\* ---------------------------------------------------- the caller's inputs
Endpoints == {"http://dial"}
Deployments == {"gpt-4o"}
\* None, "", "  ", " \t", "k", " k ".
ApiKeys == {Null, Some(<<>>), Some(<<" ", " ">>), Some(<<" ", "\t">>),
            Some(<<"k">>), Some(<<" ", "k", " ">>)}
\* tools omitted (None), no tool, or tools of which two share a name.
ToolLists == {Null, Some(<<>>), Some(<<SumA, Boom, SumB>>)}
Conversations ==
    {<<Message("SYSTEM", "be brief", Null, NONE, NONE),
       Message("USER", "1+2?", Null, NONE, NONE)>>}

\* ------------------------------------------------ the remote model's words
\* json.loads accepts the first three and the last; it rejects the others.
ArgsSum == <<"{", "\"", "a", "\"", ":", "1", ",", "\"", "b", "\"", ":", "2", "}">>
ArgsEmpty == <<"{", "}">>
ArgsCut == <<"{", "\"", "a", "\"", ":", "1">>
ToolCall(id, name, arguments) ==
    [id |-> id, function |-> [name |-> name, arguments |-> arguments]]
\* A call of a registered tool, of a name no tool has, with arguments that
\* are not JSON, and of the tool that raises.
ToolCalls == {ToolCall("c1", "sum", ArgsSum), ToolCall("c2", "nope", ArgsEmpty),
              ToolCall("c3", "sum", ArgsCut), ToolCall("c4", "boom", ArgsEmpty)}
Batches == UNION {[1..n -> ToolCalls] : n \in 0..MaxCalls}

Choice(finish_reason, content, tool_calls) ==
    [finish_reason |-> finish_reason,
     message |-> Some([content |-> content, tool_calls |-> tool_calls])]
\* A choice without a "message" key.
BareChoice(finish_reason) ==
    [finish_reason |-> finish_reason,
     message |-> [some |-> FALSE, val |-> [content |-> NONE, tool_calls |-> Null]]]
Response(status_code, text, choices) ==
    [status_code |-> status_code, text |-> text, choices |-> choices]

StatusOk == 200
ToolRounds == {Choice("tool_calls", NONE, Some(b)) : b \in Batches}
                \cup {Choice("tool_calls", "wait", Null), BareChoice("tool_calls")}
Finals == {Choice("stop", "hello", Null), Choice("stop", "3", Null),
           Choice(NONE, "hello", Some(<<>>)),
           Choice("length", NONE, Some(<<ToolCall("c1", "sum", ArgsSum)>>)),
           BareChoice("stop")}
Responses ==
    {Response(StatusOk, "", Some(<<c>>)) : c \in ToolRounds \cup Finals}
      \cup {Response(StatusOk, "", Some(<<c, d>>)) :
                c \in {Choice("stop", "hello", Null)},
                d \in {Choice("tool_calls", NONE, Some(<<ToolCall("c1", "sum", ArgsSum)>>)),
                       Choice("stop", "other", Null)}}
      \cup {Response(StatusOk, "", Some(<<c, d>>)) :
                c \in {Choice("tool_calls", NONE, Some(<<ToolCall("c1", "sum", ArgsSum)>>))},
                d \in {Choice("stop", "other", Null)}}
      \cup {Response(StatusOk, "", Null), Response(StatusOk, "", Some(<<>>)),
            Response(500, "down", Null), Response(404, "no such deployment", Null)}

\* ----------------------------------------------------------------- state
VARIABLES
    pc,             \* where the program stands
    client,         \* the DialClient: endpoint, api_key, tools_dict, tools_schemas
    error,          \* the exception that reached the caller, if any
    messages,       \* the caller's conversation list, mutated in place
    given,          \* the conversation as the caller passed it
    requests,       \* the POSTs issued so far, in order
    responses,      \* the responses received so far, in order
    tool_messages,  \* _process_tool_calls' list under construction
    i,              \* tool calls of the current batch already processed
    executed,       \* the tool.execute calls made so far, in order
    result,         \* what get_completion returned
    ctor_args       \* the arguments the constructor was called with

vars == <<pc, client, error, messages, given, requests, responses,
          tool_messages, i, executed, result, ctor_args>>

NoError == [type |-> NONE, text |-> NONE]
NoResult == Message(NONE, NONE, Null, NONE, NONE)
NoArgs == [endpoint |-> NONE, deployment_name |-> NONE, api_key |-> Null,
           tools |-> Null]

Init ==
    /\ pc = "new"
    /\ client = NoClient
    /\ error = NoError
    /\ messages = <<>>
    /\ given = <<>>
    /\ requests = <<>>
    /\ responses = <<>>
    /\ tool_messages = <<>>
    /\ i = 0
    /\ executed = <<>>
    /\ result = NoResult
    /\ ctor_args = NoArgs

\* --------------------------------------------------------- construction
\* client = DialClient(endpoint, deployment_name, api_key, tools)
Construct ==
    /\ pc = "new"
    /\ \E endpoint \in Endpoints, deployment_name \in Deployments,
          api_key \in ApiKeys, tools \in ToolLists :
          LET made == NewClient(endpoint, deployment_name, api_key, tools) IN
          /\ client' = made.client
          /\ error' = made.error
          /\ pc' = IF made.error.type = NONE THEN "ready" ELSE "INIT_FAILED"
          /\ ctor_args' = [endpoint |-> endpoint,
                           deployment_name |-> deployment_name,
                           api_key |-> api_key, tools |-> tools]
    /\ UNCHANGED <<messages, given, requests, responses, tool_messages, i,
                   executed, result>>

\* The caller calls client.get_completion(messages) with its conversation.
Call ==
    /\ pc = "ready"
    /\ \E conversation \in Conversations :
          /\ messages' = conversation
          /\ given' = conversation
    /\ pc' = "REQUESTING"
    /\ UNCHANGED <<client, error, requests, responses, tool_messages, i,
                   executed, result,
                   ctor_args>>

\* ------------------------------------------------------- get_completion
\* The request get_completion builds from the conversation as it stands.
RequestOf(c, msgs) ==
    [url |-> c.endpoint,
     headers |-> [api_key |-> c.api_key.val, content_type |-> "application/json"],
     json |-> [messages |-> ToDicts(msgs), tools |-> c.tools_schemas]]

\* The tool calls a response carries in its first choice, and those of all
\* the responses of a log.
Asked(response) ==
    IF Truthy(response.choices) /\ response.choices.val[1].message.some
       /\ response.choices.val[1].message.val.tool_calls.some
    THEN Len(response.choices.val[1].message.val.tool_calls.val) ELSE 0
RECURSIVE AskedIn(_)
AskedIn(log) == IF log = <<>> THEN 0 ELSE Asked(Head(log)) + AskedIn(Tail(log))

\* Lines 43-64: build headers and request_data, POST, block for the response.
Request ==
    /\ pc = "REQUESTING"
    /\ Len(requests) < MaxRequests
    /\ requests' = Append(requests, RequestOf(client, messages))
    /\ \E response \in Responses :
          /\ AskedIn(responses) + Asked(response) <= MaxCalls
          /\ responses' = Append(responses, response)
    /\ pc' = "RESPONSE"
    /\ UNCHANGED <<client, error, messages, given, tool_messages, i, executed,
                   result,
                   ctor_args>>

\* The response being handled, and what lines 72-92 read from it.
Response_ == responses[Len(responses)]
ChoicesOf(response) == response.choices
\* Mutant: choices[-1] is taken.
LastChoice(response) == ChoicesOf(response).val[Len(ChoicesOf(response).val)]
FirstChoice(response) == ChoicesOf(response).val[1]
\* choice.get("message", {}) then .get("content"), .get("tool_calls")
MessageData(choice) == choice.message.val
\* Mutant: the AI message is built without the tool calls.
AiResponseNoCalls(choice) ==
    Message("AI", MessageData(choice).content, Null, NONE, NONE)
AiResponse(choice) ==
    Message("AI", MessageData(choice).content, MessageData(choice).tool_calls,
            NONE, NONE)
\* Mutant: a limit of one tool round.
WantsToolsOnce(choice) == choice.finish_reason = "tool_calls" /\ Len(requests) < 2
\* Mutant: every finish_reason but "stop" continues the loop.
WantsToolsUnlessStop(choice) == choice.finish_reason # "stop"
WantsTools(choice) == choice.finish_reason = "tool_calls"

\* Mutant: the status code is left out of the error.
StatusErrorNoCode(response) ==
    [type |-> "Exception", text |-> "HTTP error: " \o response.text]
\* Exception(f"HTTP {response.status_code}: {response.text}")
StatusError(response) ==
    [type |-> "Exception",
     text |-> "HTTP " \o IntToStr(response.status_code) \o ": " \o response.text]

\* Mutant: choices[0] is read without the check and raises.
NoChoiceCrash == [type |-> "IndexError", text |-> "list index out of range"]
\* ValueError("No Choice has been present in the response")
NoChoiceError ==
    [type |-> "ValueError", text |-> "No Choice has been present in the response"]

\* Mutant: a failed request is issued again.
HandleStatusErrorRetry ==
    /\ pc = "RESPONSE"
    /\ Response_.status_code # StatusOk
    /\ pc' = "REQUESTING"
    /\ UNCHANGED <<client, error, messages, given, requests, responses,
                   tool_messages, i, executed, result, ctor_args>>

\* Line 114: a status other than 200.
HandleStatusError ==
    /\ pc = "RESPONSE"
    /\ Response_.status_code # StatusOk
    /\ error' = StatusError(Response_)
    /\ pc' = "FAILED"
    /\ UNCHANGED <<client, messages, given, requests, responses, tool_messages,
                   i, executed, result,
                   ctor_args>>

\* Line 112: status 200 and no choice.
HandleNoChoice ==
    /\ pc = "RESPONSE"
    /\ Response_.status_code = StatusOk
    /\ ~Truthy(ChoicesOf(Response_))
    /\ error' = NoChoiceError
    /\ pc' = "FAILED"
    /\ UNCHANGED <<client, messages, given, requests, responses, tool_messages,
                   i, executed, result,
                   ctor_args>>

\* Mutant: the final message is appended to the conversation as well.
HandleFinalAppending ==
    /\ pc = "RESPONSE"
    /\ Response_.status_code = StatusOk
    /\ Truthy(ChoicesOf(Response_))
    /\ ~WantsTools(FirstChoice(Response_))
    /\ result' = AiResponse(FirstChoice(Response_))
    /\ messages' = Append(messages, AiResponse(FirstChoice(Response_)))
    /\ pc' = "DONE"
    /\ UNCHANGED <<client, error, given, requests, responses, tool_messages, i,
                   executed, ctor_args>>

\* Line 110: the first choice does not ask for tools; its message is returned.
HandleFinal ==
    /\ pc = "RESPONSE"
    /\ Response_.status_code = StatusOk
    /\ Truthy(ChoicesOf(Response_))
    /\ ~WantsTools(FirstChoice(Response_))
    /\ result' = AiResponse(FirstChoice(Response_))
    /\ pc' = "DONE"
    /\ UNCHANGED <<client, error, messages, given, requests, responses,
                   tool_messages, i, executed,
                   ctor_args>>

\* Mutants: insert at the front; assign instead of extend.
ListPrepend(list, message) == <<message>> \o list
ListReplace(list, more) == more
\* Mutant: the extension is forgotten.
ListKeep(list, more) == list
\* list.append(message) and list.extend(more)
ListAppend(list, message) == Append(list, message)
ListExtend(list, more) == list \o more

\* Mutant: the calls are gone through from the last to the first.
BatchReversed ==
    LET calls == MessageData(FirstChoice(Response_)).tool_calls
    IN [some |-> calls.some,
        val |-> [k \in 1..Len(calls.val) |-> calls.val[Len(calls.val) + 1 - k]]]
\* The tool calls of the AI message being processed (the argument of
\* _process_tool_calls).
Batch == MessageData(FirstChoice(Response_)).tool_calls

\* Mutant: the AI message is not appended before the tool calls are
\* processed.
HandleToolCallsNoAppend ==
    /\ pc = "RESPONSE"
    /\ Response_.status_code = StatusOk
    /\ Truthy(ChoicesOf(Response_))
    /\ WantsTools(FirstChoice(Response_))
    /\ tool_messages' = <<>>
    /\ i' = 0
    /\ IF Batch.some
       THEN pc' = "TOOL_EXECUTION" /\ error' = error
       ELSE /\ pc' = "FAILED"
            /\ error' = [type |-> "TypeError",
                         text |-> "'NoneType' object is not iterable"]
    /\ UNCHANGED <<client, messages, given, requests, responses, executed,
                   result, ctor_args>>

\* Lines 101-104: the first choice asks for tools.  The AI message is
\* appended and _process_tool_calls starts; iterating None raises.
HandleToolCalls ==
    /\ pc = "RESPONSE"
    /\ Response_.status_code = StatusOk
    /\ Truthy(ChoicesOf(Response_))
    /\ WantsTools(FirstChoice(Response_))
    /\ messages' = ListAppend(messages, AiResponse(FirstChoice(Response_)))
    /\ tool_messages' = <<>>
    /\ i' = 0
    /\ IF Batch.some
       THEN pc' = "TOOL_EXECUTION" /\ error' = error
       ELSE /\ pc' = "FAILED"
            /\ error' = [type |-> "TypeError",
                         text |-> "'NoneType' object is not iterable"]
    /\ UNCHANGED <<client, given, requests, responses, executed, result,
                   ctor_args>>

\* ------------------------------------------------------------ _call_tool
\* Is execute called for this name, and on which tool.
Registered(c, function_name) == function_name \in DOMAIN c.tools_dict
\* Mutant: the registry is indexed instead of asked, an unknown name raises.
CallToolIndexed(c, function_name, arguments) ==
    IF Registered(c, function_name)
    THEN Execute(c.tools_dict[function_name], arguments)
    ELSE Raised("KeyError")
CallTool(c, function_name, arguments) ==
    IF Registered(c, function_name)
    THEN Execute(c.tools_dict[function_name], arguments)
    ELSE Returned("Unknown function: " \o function_name)

\* --------------------------------------------------- _process_tool_calls
\* Mutant: name and tool_call_id passed in each other's place.
ToolMessageSwapped(function_name, tool_call_id, tool_execution_result) ==
    Message("TOOL", tool_execution_result, Null, tool_call_id, function_name)

\* The TOOL message of lines 138-143.
ToolMessage(function_name, tool_call_id, tool_execution_result) ==
    Message("TOOL", tool_execution_result, Null, function_name, tool_call_id)

Execution(c, function_name, arguments, round, index) ==
    [tool |-> c.tools_dict[function_name], arguments |-> arguments,
     round |-> round, index |-> index]

\* One iteration of the loop of lines 120-146, on call i+1 of the batch.
ProcessToolCall ==
    /\ pc = "TOOL_EXECUTION"
    /\ i < Len(Batch.val)
    /\ LET tool_call == Batch.val[i + 1]
           tool_call_id == tool_call.id
           function_name == tool_call.function.name
           parsed == JsonLoads(tool_call.function.arguments)
           outcome == CallTool(client, function_name, parsed.value)
       IN IF ~parsed.ok
          THEN /\ error' = [type |-> "JSONDecodeError",
                            text |-> "arguments are not JSON"]
               /\ pc' = "FAILED"
               /\ UNCHANGED <<tool_messages, i, executed,
                   ctor_args>>
          ELSE /\ executed' =
                    IF Registered(client, function_name)
                    THEN Append(executed, Execution(client, function_name,
                                    parsed.value, Len(requests), i + 1))
                    ELSE executed
               /\ IF outcome.raised
                  THEN /\ error' = [type |-> outcome.out,
                                    text |-> "raised by execute"]
                       /\ pc' = "FAILED"
                       /\ UNCHANGED <<tool_messages, i>>
                  ELSE /\ tool_messages' =
                            ListAppend(tool_messages,
                                   ToolMessage(function_name, tool_call_id,
                                               outcome.out))
                       /\ i' = i + 1
                       /\ UNCHANGED <<pc, error>>
    /\ UNCHANGED <<client, messages, given, requests, responses, result,
                   ctor_args>>

\* Lines 149 and 105-108: the loop is over, the TOOL messages are appended to
\* the conversation and get_completion calls itself.
FinishToolCalls ==
    /\ pc = "TOOL_EXECUTION"
    /\ i = Len(Batch.val)
    /\ messages' = ListExtend(messages, tool_messages)
    /\ pc' = "REQUESTING"
    /\ UNCHANGED <<client, error, given, requests, responses, tool_messages, i,
                   executed, result,
                   ctor_args>>

Next ==
    \/ Construct
    \/ Call
    \/ Request
    \/ HandleStatusError
    \/ HandleNoChoice
    \/ HandleFinal
    \/ HandleToolCalls
    \/ ProcessToolCall
    \/ FinishToolCalls

Spec == Init /\ [][Next]_vars

\* The program is one thread of blocking calls: a step that can be taken is
\* taken (the POST returns, the handler runs, the tool returns or raises).
FairSpec == Spec /\ WF_vars(Next)

TypeOK ==
    /\ pc \in {"new", "INIT_FAILED", "ready", "REQUESTING", "RESPONSE",
                "TOOL_EXECUTION", "DONE", "FAILED"}
    /\ Len(requests) <= MaxRequests
    /\ Len(responses) <= Len(requests)

\* ================================================================ claims
\* What a response says, read from the response itself.
Is200(response) == response.status_code = 200
HasChoice(response) == response.choices.some /\ response.choices.val # <<>>
Finish0(response) == response.choices.val[1].finish_reason
\* The content and tool calls of the first choice; both None when the choice
\* has no message.
Content0(response) ==
    IF response.choices.val[1].message.some
    THEN response.choices.val[1].message.val.content ELSE NONE
Calls0(response) ==
    IF response.choices.val[1].message.some
    THEN response.choices.val[1].message.val.tool_calls ELSE Null
AiMessage0(response) ==
    [role |-> "AI", content |-> Content0(response), tool_calls |-> Calls0(response),
     name |-> NONE, tool_call_id |-> NONE]
AsksTools(response) ==
    Is200(response) /\ HasChoice(response) /\ Finish0(response) = "tool_calls"
IsFinal(response) ==
    Is200(response) /\ HasChoice(response) /\ Finish0(response) # "tool_calls"
\* The wire form of a message the orchestrator built.
WireAi(response) == ToDict(AiMessage0(response))
IsWireTool(d, call) ==
    /\ DOMAIN d = {"role", "content", "name", "tool_call_id"}
    /\ d.role = RoleValue("TOOL")
    /\ d.tool_call_id = call.id
    /\ d.name = call.function.name
LastRequest == requests[Len(requests)]
LastResponse == responses[Len(responses)]

\* C1: when the first response is a tool round with a list of tool calls and
\* the second response has another finish_reason, exactly two requests are
\* issued, the AI message of the second response is returned, and the second
\* request carries the first request's messages, then the AI message of the
\* first response, then one TOOL message per call with the call's id and name.
C1_TwoRequestRun ==
    (/\ Len(responses) >= 2
     /\ AsksTools(responses[1]) /\ Calls0(responses[1]).some
     /\ IsFinal(responses[2]))
    => LET calls == Calls0(responses[1]).val
           first == requests[1].json.messages
           second == requests[2].json.messages
       IN /\ Len(requests) = 2 /\ Len(responses) = 2
          /\ pc \in {"RESPONSE", "DONE"}
          /\ pc = "DONE" => result = AiMessage0(responses[2])
          /\ Len(second) = Len(first) + 1 + Len(calls)
          /\ SubSeq(second, 1, Len(first)) = first
          /\ second[Len(first) + 1] = WireAi(responses[1])
          /\ \A k \in 1..Len(calls) :
                IsWireTool(second[Len(first) + 1 + k], calls[k])
C1_Witness ==
    /\ pc = "DONE" /\ Len(requests) = 2
    /\ AsksTools(responses[1]) /\ Calls0(responses[1]).some
    /\ Len(Calls0(responses[1]).val) = 2
    /\ Calls0(responses[1]).val[1] # Calls0(responses[1]).val[2]
    /\ result.content = "3"

\* C2: every TOOL message the orchestrator appended to the conversation has
\* the id of a tool call of an AI message that stands earlier in it.
C2_ToolIdAnswersEarlierCall ==
    \A k \in (Len(given) + 1)..Len(messages) :
        messages[k].role = "TOOL"
        => \E j \in 1..(k - 1) :
              /\ messages[j].role = "AI"
              /\ messages[j].tool_calls.some
              /\ \E c \in 1..Len(messages[j].tool_calls.val) :
                    messages[j].tool_calls.val[c].id = messages[k].tool_call_id
C2_Witness ==
    /\ Len(requests) = 2
    /\ \E k \in (Len(given) + 1)..Len(messages) :
          messages[k].role = "TOOL" /\ messages[k].tool_call_id = "c2"

\* C3: a 200 response whose first choice has a finish_reason other than
\* "tool_calls" ends the run: the AI message with that choice's content and
\* tool_calls is returned, no request follows, no tool runs and nothing is
\* appended to the conversation in that round.
C3_FinalResponseEndsRun ==
    \A k \in 1..Len(responses) :
        IsFinal(responses[k])
        => /\ k = Len(responses) /\ Len(requests) = k
           /\ pc \in {"RESPONSE", "DONE"}
           /\ pc = "DONE" => result = AiMessage0(responses[k])
           /\ ToDicts(messages) = requests[k].json.messages
           /\ \A e \in 1..Len(executed) : executed[e].round < k
C3_Witness ==
    /\ pc = "DONE" /\ Len(requests) < MaxRequests
    /\ Finish0(LastResponse) = "length"
    /\ result.tool_calls.some /\ result.tool_calls.val # <<>>

\* C4: a response with a status other than 200, in any round, makes
\* get_completion fail with the transport error that carries the status code
\* and the body, and the conversation is the one serialized into that request.
TransportText(response) ==
    CASE response.status_code = 500 -> "HTTP 500: " \o response.text
      [] response.status_code = 404 -> "HTTP 404: " \o response.text
C4_Non200Fails ==
    \A k \in 1..Len(responses) :
        ~Is200(responses[k])
        => /\ k = Len(responses) /\ Len(requests) = k
           /\ pc \in {"RESPONSE", "FAILED"}
           /\ pc = "FAILED" => /\ error.type = "Exception"
                               /\ error.text = TransportText(responses[k])
           /\ ToDicts(messages) = requests[k].json.messages
           /\ result = NoResult
C4_Witness ==
    /\ pc = "FAILED" /\ Len(requests) = 2
    /\ LastResponse.status_code = 404
    /\ Len(messages) > Len(given)

\* C5: a 200 response whose choices are an empty list or absent makes
\* get_completion fail with the "no choice" error; no tool runs, nothing is
\* appended for that response and no request follows.
C5_NoChoiceFails ==
    \A k \in 1..Len(responses) :
        (Is200(responses[k]) /\ responses[k].choices \in {Null, Some(<<>>)})
        => /\ k = Len(responses) /\ Len(requests) = k
           /\ pc \in {"RESPONSE", "FAILED"}
           /\ pc = "FAILED"
                => error = [type |-> "ValueError",
                            text |-> "No Choice has been present in the response"]
           /\ ToDicts(messages) = requests[k].json.messages
           /\ \A e \in 1..Len(executed) : executed[e].round < k
           /\ result = NoResult
C5_Witness ==
    /\ pc = "FAILED" /\ Len(requests) = 2
    /\ Is200(LastResponse) /\ LastResponse.choices = Some(<<>>)
    /\ executed # <<>>

\* The batch of the round that is being or was last processed, and the calls
\* of a batch that the client can answer with a string: the arguments parse
\* and the tool of that name, if there is one, returns.
InToolRound == /\ pc \in {"TOOL_EXECUTION", "REQUESTING", "FAILED"}
               /\ responses # <<>>
               /\ AsksTools(LastResponse) /\ Calls0(LastResponse).some
LastCalls == Calls0(LastResponse).val
\* Of the argument strings the remote model sends, those that are JSON.
Parses(call) == call.function.arguments \in {ArgsSum, ArgsEmpty}
ToolOf(call) == client.tools_dict[call.function.name]
HasTool(call) == call.function.name \in DOMAIN client.tools_dict
ToolReturns(call) ==
    HasTool(call) => ~Execute(ToolOf(call), JsonLoads(call.function.arguments).value).raised
\* What _call_tool returns for the name and parsed arguments of a call.
CallToolString(call) ==
    CallTool(client, call.function.name, JsonLoads(call.function.arguments).value).out

\* C6: _process_tool_calls on N tool calls whose arguments parse and whose
\* tools return yields exactly N TOOL messages, message k carrying the id and
\* the function name of call k and the string _call_tool returns for call k.
C6_OneToolMessagePerCall ==
    InToolRound
    => /\ Len(tool_messages) = i /\ i <= Len(LastCalls)
       /\ \A k \in 1..Len(tool_messages) :
             tool_messages[k] =
                 [role |-> "TOOL", content |-> CallToolString(LastCalls[k]),
                  tool_calls |-> Null, name |-> LastCalls[k].function.name,
                  tool_call_id |-> LastCalls[k].id]
       /\ pc = "REQUESTING" => Len(tool_messages) = Len(LastCalls)
       /\ pc = "FAILED" => ~(Parses(LastCalls[i + 1]) /\ ToolReturns(LastCalls[i + 1]))
       /\ (\A k \in 1..Len(LastCalls) : Parses(LastCalls[k]) /\ ToolReturns(LastCalls[k]))
             => pc # "FAILED"
C6_Witness ==
    /\ InToolRound /\ pc = "REQUESTING"
    /\ Len(tool_messages) = 2
    /\ tool_messages[1].tool_call_id # tool_messages[2].tool_call_id
    /\ tool_messages[1].content # tool_messages[2].content
    /\ HasTool(LastCalls[1])
C6_WitnessEmpty ==
    /\ InToolRound /\ pc = "REQUESTING" /\ LastCalls = <<>>

\* C7: a tool name that is not in the registry is answered with the string
\* "Unknown function: <name>" and nothing is raised; in get_completion that
\* string is the content of the call's TOOL message and the loop goes on to
\* the next request, which carries it.
UnknownText(name) ==
    CASE name = "sum" -> "Unknown function: sum"
      [] name = "nope" -> "Unknown function: nope"
      [] name = "boom" -> "Unknown function: boom"
C7_UnknownToolAnswered ==
    /\ InToolRound
         => /\ \A k \in 1..Len(tool_messages) :
                  ~HasTool(LastCalls[k])
                  => tool_messages[k].content = UnknownText(LastCalls[k].function.name)
            /\ pc = "FAILED" => ~(Parses(LastCalls[i + 1]) /\ ~HasTool(LastCalls[i + 1]))
    /\ \A r \in 2..Len(requests) :
          LET calls == Calls0(responses[r - 1]).val
              base == Len(requests[r - 1].json.messages) + 1
          IN \A k \in 1..Len(calls) :
                ~HasTool(calls[k])
                => /\ IsWireTool(requests[r].json.messages[base + k], calls[k])
                   /\ requests[r].json.messages[base + k].content
                        = UnknownText(calls[k].function.name)
C7_Witness ==
    /\ Len(requests) = 2 /\ client.tools_dict # <<>>
    /\ \E k \in 1..Len(requests[2].json.messages) :
          requests[2].json.messages[k].content = "Unknown function: nope"
C7_WitnessNoTools ==
    /\ Len(requests) = 2 /\ client.tools_dict = <<>>
    /\ \E k \in 1..Len(requests[2].json.messages) :
          requests[2].json.messages[k].content = "Unknown function: sum"

\* C8: construction fails with the configuration error when the credential
\* is absent, empty or only whitespace, and succeeds for every other
\* credential, whatever the other arguments (tools omitted included).
KeyIsBlank(api_key) ==
    ~api_key.some \/ \A k \in 1..Len(api_key.val) : api_key.val[k] \in Whitespace
C8_CredentialDecidesConstruction ==
    pc # "new"
    => IF KeyIsBlank(ctor_args.api_key)
       THEN pc = "INIT_FAILED" /\ error.type = "ValueError"
       ELSE pc # "INIT_FAILED"

\* C9: the conversation only grows at its end: every step of get_completion
\* leaves the messages it found as a prefix of the messages it leaves.
C9_AppendOnly == [][IsPrefix(messages, messages')]_vars
C9_Witness ==
    /\ pc = "FAILED" /\ Len(requests) = 3
    /\ Len(messages) >= Len(given) + 4
    /\ SubSeq(messages, 1, Len(given)) = given

\* C10: a batch with a tool call whose arguments are not JSON fails as a
\* whole: no TOOL message of the batch reaches the conversation, no call
\* from the malformed one on is executed, no request follows, and (the calls
\* before it having returned) the error is the parsing error.
FirstMalformed(calls) ==
    CHOOSE m \in 1..Len(calls) :
        ~Parses(calls[m]) /\ \A j \in 1..(m - 1) : Parses(calls[j])
C10_MalformedArgumentsFailBatch ==
    \A k \in 1..Len(responses) :
        (/\ AsksTools(responses[k]) /\ Calls0(responses[k]).some
         /\ \E m \in 1..Len(Calls0(responses[k]).val) :
               ~Parses(Calls0(responses[k]).val[m]))
        => LET calls == Calls0(responses[k]).val
               m == FirstMalformed(calls)
               sent == requests[k].json.messages
           IN /\ k = Len(responses) /\ Len(requests) = k
              /\ pc \in {"RESPONSE", "TOOL_EXECUTION", "FAILED"}
              /\ pc = "RESPONSE" => ToDicts(messages) = sent
              /\ pc # "RESPONSE"
                   => /\ ToDicts(messages) = sent \o <<WireAi(responses[k])>>
                      /\ i < m
              /\ \A e \in 1..Len(executed) :
                    executed[e].round = k => executed[e].index < m
              /\ (pc = "FAILED" /\ \A j \in 1..(m - 1) : ToolReturns(calls[j]))
                   => i = m - 1 /\ error.type = "JSONDecodeError"
              /\ result = NoResult
C10_Witness ==
    /\ pc = "FAILED" /\ error.type = "JSONDecodeError"
    /\ i = 1 /\ Len(LastCalls) = 2
    /\ executed # <<>> /\ executed[Len(executed)].round = Len(requests)

\* The tool rounds the conversation shows as completed: the AI messages the
\* orchestrator appended that are followed by one TOOL message per call.
CompletedRounds ==
    Cardinality({p \in (Len(given) + 1)..Len(messages) :
        /\ messages[p].role = "AI" /\ messages[p].tool_calls.some
        /\ LET calls == messages[p].tool_calls.val
           IN /\ p + Len(calls) <= Len(messages)
              /\ \A k \in 1..Len(calls) :
                    /\ messages[p + k].role = "TOOL"
                    /\ messages[p + k].tool_call_id = calls[k].id})
\* The call of a batch at which processing fails, 0 if it does not: the
\* first whose arguments are not JSON or whose tool raises.
Fails(call) == ~Parses(call) \/ ~ToolReturns(call)
FailingCall(calls) ==
    IF \E j \in 1..Len(calls) : Fails(calls[j])
    THEN CHOOSE j \in 1..Len(calls) :
            Fails(calls[j]) /\ \A h \in 1..(j - 1) : ~Fails(calls[h])
    ELSE 0
\* A response that makes get_completion fail.
IsFault(response) ==
    \/ ~Is200(response)
    \/ ~HasChoice(response)
    \/ /\ AsksTools(response)
       /\ \/ ~Calls0(response).some
          \/ FailingCall(Calls0(response).val) # 0

\* C11: nothing is retried.  A fault (status other than 200, no choice,
\* arguments that are not JSON, a tool that raises) is the end of the run: no
\* request and no tool execution follows it and the error is with the caller;
\* every request has one response, and the requests issued are at most the
\* completed tool rounds plus one.
C11_Faults ==
    /\ Len(responses) = Len(requests)
    /\ Len(requests) <= CompletedRounds + 1
    /\ pc = "FAILED" => /\ error.type # NONE /\ result = NoResult
                        /\ IsFault(LastResponse)
    /\ \A k \in 1..Len(responses) :
          IsFault(responses[k])
          => /\ k = Len(responses)
             /\ pc \in {"RESPONSE", "TOOL_EXECUTION", "FAILED"}
             /\ \A e \in 1..Len(executed) :
                   executed[e].round = k
                   => /\ Calls0(responses[k]).some
                      /\ executed[e].index <= FailingCall(Calls0(responses[k]).val)
C11_NoRetry == []C11_Faults /\ [][pc # "FAILED"]_vars
C11_Witness ==
    /\ pc = "FAILED" /\ error.type = "RuntimeError"
    /\ Len(requests) = 2 /\ CompletedRounds = 1
    /\ i = 1 /\ Len(executed) >= 2

\* The last tool of a name in the list given to the constructor.
LastNamed(tools, name) ==
    LET at == {k \in 1..Len(tools) : tools[k].name = name}
    IN tools[CHOOSE k \in at : \A h \in at : h <= k]
CallOf(execution) ==
    Calls0(responses[execution.round]).val[execution.index]

\* C12: when several tools of the list share a name, the registry holds the
\* last of them under that name and every dispatch of the name runs that
\* tool, never an earlier one.
C12_LastRegisteredWins ==
    pc \notin {"new", "INIT_FAILED"}
    => LET tools == ctor_args.tools.val IN
       /\ DOMAIN client.tools_dict = {tools[k].name : k \in 1..Len(tools)}
       /\ \A name \in DOMAIN client.tools_dict :
             client.tools_dict[name] = LastNamed(tools, name)
       /\ \A e \in 1..Len(executed) :
             executed[e].tool = LastNamed(tools, CallOf(executed[e]).function.name)
       /\ InToolRound
            => \A k \in 1..Len(tool_messages) :
                  LastCalls[k].function.name \in {tools[h].name : h \in 1..Len(tools)}
                  => tool_messages[k].content =
                       Execute(LastNamed(tools, LastCalls[k].function.name),
                               JsonLoads(LastCalls[k].function.arguments).value).out
C12_Witness ==
    /\ pc = "REQUESTING" /\ Len(requests) = 1
    /\ ctor_args.tools = Some(<<SumA, Boom, SumB>>)
    /\ executed # <<>> /\ executed[1].tool = SumB
    /\ tool_messages # <<>> /\ tool_messages[1].content = "B3"

\* C13: a client made with a valid credential and no tools (the list omitted
\* or empty) has an empty registry and an empty schema list: every request
\* carries an empty tools list and every dispatched name is answered with
\* "Unknown function: <name>".
C13_NoToolsGivesEmptyContainers ==
    (/\ pc # "new" /\ ~KeyIsBlank(ctor_args.api_key)
     /\ ctor_args.tools \in {Null, Some(<<>>)})
    => /\ pc # "INIT_FAILED"
       /\ client.tools_dict = <<>> /\ client.tools_schemas = <<>>
       /\ \A r \in 1..Len(requests) : requests[r].json.tools = <<>>
       /\ executed = <<>>
       /\ InToolRound
            => \A k \in 1..Len(tool_messages) :
                  tool_messages[k].content = UnknownText(LastCalls[k].function.name)

\* C14: the loop ends exactly when the model stops asking for tools.  With
\* responses that are 200, have a first choice and well-formed tool calls:
\* after k tool rounds and one other finish_reason the run is DONE, with
\* exactly k+1 requests; a tool round never ends the run, however many came
\* before it, so that DONE is not reached while the model keeps asking.
ToolRoundsAsked == Cardinality({k \in 1..Len(responses) : AsksTools(responses[k])})
GoodToolRound(response) == AsksTools(response) /\ ~IsFault(response)
C14_EndsOnlyOnFinal ==
    /\ pc = "DONE"
         => /\ IsFinal(LastResponse)
            /\ \A k \in 1..(Len(responses) - 1) : GoodToolRound(responses[k])
            /\ Len(requests) = ToolRoundsAsked + 1
    /\ (responses # <<>> /\ GoodToolRound(LastResponse))
         => pc \in {"RESPONSE", "TOOL_EXECUTION", "REQUESTING"}
C14_LoopEndsWithModel ==
    /\ []C14_EndsOnlyOnFinal
    /\ (pc = "RESPONSE" /\ IsFinal(LastResponse)) ~> (pc = "DONE")
    /\ (pc = "RESPONSE" /\ GoodToolRound(LastResponse))
         ~> (pc = "REQUESTING" /\ CompletedRounds = Len(requests))
C14_Witness ==
    /\ pc = "DONE" /\ Len(requests) = MaxRequests
    /\ ToolRoundsAsked = MaxRequests - 1
    /\ executed # <<>>

\* C15: the tool calls of a response are executed one after the other in the
\* order of tool_calls, each once, all of them after the response of their
\* round has come and before the next request goes out.
Before(e, f) ==
    \/ executed[e].round < executed[f].round
    \/ executed[e].round = executed[f].round /\ executed[e].index < executed[f].index
\* The calls of round r that a tool of the registry executes.
ToolCallsOf(r) ==
    IF AsksTools(responses[r]) /\ Calls0(responses[r]).some
    THEN {k \in 1..Len(Calls0(responses[r]).val) : HasTool(Calls0(responses[r]).val[k])}
    ELSE {}
ExecutedOf(r) == {executed[e].index : e \in {x \in 1..Len(executed) : executed[x].round = r}}
C15_SequentialInOrder ==
    /\ \A e \in 1..Len(executed) :
          /\ executed[e].round \in 1..Len(responses)
          /\ executed[e].index \in ToolCallsOf(executed[e].round)
          /\ executed[e].tool = ToolOf(CallOf(executed[e]))
          /\ executed[e].arguments = JsonLoads(CallOf(executed[e]).function.arguments).value
    /\ \A e, f \in 1..Len(executed) : e < f => Before(e, f)
    /\ \A r \in 1..Len(responses) :
          \/ r < Len(requests)
          \/ pc = "REQUESTING"
          => ExecutedOf(r) = ToolCallsOf(r)
    /\ pc = "TOOL_EXECUTION"
         => ExecutedOf(Len(responses)) = {k \in ToolCallsOf(Len(responses)) : k <= i}
C15_Witness ==
    /\ pc = "REQUESTING" /\ Len(requests) = 1
    /\ Len(executed) = 2 /\ executed[1].index = 1 /\ executed[2].index = 2

\* A response cut down to its first choice, and the TOOL messages that answer
\* a list of calls, as they go over the wire.
FirstOnly(response) ==
    [response EXCEPT !.choices = Some(<<response.choices.val[1]>>)]
WireTools(calls) ==
    [k \in 1..Len(calls) |->
        [role |-> RoleValue("TOOL"), content |-> CallToolString(calls[k]),
         name |-> calls[k].function.name, tool_call_id |-> calls[k].id]]

\* C16: only the first choice of a response counts.  What get_completion
\* does with a response of several choices (the branch taken, the tools
\* executed, the messages appended, the result) is what the response cut
\* down to its first choice prescribes, so that two responses with the same
\* first choice are treated alike.
C16_OnlyFirstChoice ==
    \A k \in 1..Len(responses) :
        (Is200(responses[k]) /\ HasChoice(responses[k])
           /\ Len(responses[k].choices.val) > 1)
        => LET one == FirstOnly(responses[k])
               sent == requests[k].json.messages
           IN /\ one \in Responses
              /\ IsFinal(one)
                   => /\ k = Len(responses)
                      /\ pc \in {"RESPONSE", "DONE"}
                      /\ pc = "DONE" => result = AiMessage0(one)
                      /\ ToDicts(messages) = sent
                      /\ ExecutedOf(k) = {}
              /\ GoodToolRound(one)
                   => /\ k = Len(responses)
                           => pc \in {"RESPONSE", "TOOL_EXECUTION", "REQUESTING"}
                      /\ ExecutedOf(k) \subseteq ToolCallsOf(k)
                      /\ \A e \in 1..Len(executed) :
                            executed[e].round = k
                            => executed[e].tool
                                 = ToolOf(Calls0(one).val[executed[e].index])
                      /\ (k = Len(responses) /\ pc = "REQUESTING")
                           => ToDicts(messages) = sent \o <<WireAi(one)>>
                                \o WireTools(Calls0(one).val)
                      /\ k < Len(requests)
                           => requests[k + 1].json.messages
                                = sent \o <<WireAi(one)>> \o WireTools(Calls0(one).val)
C16_Witness ==
    /\ pc = "DONE" /\ Len(requests) = 2
    /\ Len(responses[1].choices.val) = 2 /\ AsksTools(responses[1])
    /\ Len(responses[2].choices.val) = 2
    /\ responses[2].choices.val[2].finish_reason = "tool_calls"
    /\ executed # <<>>

\* C17: no request goes out with a tool call unanswered.  In the messages of
\* every request after the first, each AI message the orchestrator appended
\* is followed at once by one TOOL message per tool call, in the order of
\* its tool_calls and with the calls' ids, and then by the next AI message
\* or the end of the list.
IsWireAi(d) == d.role = RoleValue("AI")
WireCalls(d) == IF "tool_calls" \in DOMAIN d THEN d.tool_calls ELSE <<>>
\* The AI messages of the rounds before request r are in its list, each with
\* the tool calls of its response.
AiPositions(sent) == {p \in (Len(given) + 1)..Len(sent) : IsWireAi(sent[p])}
C17_NoUnansweredCall ==
    \A r \in 2..Len(requests) :
        LET sent == requests[r].json.messages IN
        /\ SubSeq(sent, 1, Len(given)) = ToDicts(given)
        /\ Cardinality(AiPositions(sent)) = r - 1
        /\ \A p \in AiPositions(sent) :
              LET calls == WireCalls(sent[p])
                  after == p + Len(calls) + 1
                  round == Cardinality({q \in AiPositions(sent) : q <= p})
              IN /\ calls = Calls0(responses[round]).val
                 /\ p + Len(calls) <= Len(sent)
                 /\ \A k \in 1..Len(calls) :
                       /\ sent[p + k].role = RoleValue("TOOL")
                       /\ sent[p + k].tool_call_id = calls[k].id
                 /\ after <= Len(sent) => IsWireAi(sent[after])
C17_Witness ==
    /\ Len(requests) = 2
    /\ Len(requests[2].json.messages) = Len(given) + 3
    /\ requests[2].json.messages[Len(given) + 2].tool_call_id = "c1"
    /\ requests[2].json.messages[Len(given) + 3].tool_call_id = "c2"

\* C18: a failure while the tool calls are processed (arguments that are not
\* JSON, or execute raising, at call j) leaves a partial state: the
\* conversation has grown by the AI message of the round and by no TOOL
\* message, the tools of the calls before j have run once each and those of
\* the calls after j have not run.
TimesExecuted(r, k) ==
    Cardinality({e \in 1..Len(executed) :
                    executed[e].round = r /\ executed[e].index = k})
C18_PartialStateOnToolFailure ==
    (/\ pc = "FAILED" /\ responses # <<>>
     /\ AsksTools(LastResponse) /\ Calls0(LastResponse).some)
    => LET j == i + 1
           r == Len(responses)
       IN /\ j = FailingCall(LastCalls)
          /\ Len(messages) = Len(LastRequest.json.messages) + 1
          /\ messages[Len(messages)] = AiMessage0(LastResponse)
          /\ ToDicts(SubSeq(messages, 1, Len(messages) - 1))
               = LastRequest.json.messages
          /\ \A k \in 1..(j - 1) :
                TimesExecuted(r, k) = IF HasTool(LastCalls[k]) THEN 1 ELSE 0
          /\ TimesExecuted(r, j)
               = IF Parses(LastCalls[j]) /\ HasTool(LastCalls[j]) THEN 1 ELSE 0
          /\ \A k \in (j + 1)..Len(LastCalls) : TimesExecuted(r, k) = 0
          /\ error.type = IF Parses(LastCalls[j]) THEN "RuntimeError"
                          ELSE "JSONDecodeError"
C18_Witness ==
    /\ pc = "FAILED" /\ error.type = "RuntimeError"
    /\ Len(requests) = 1 /\ i = 1
    /\ Len(executed) = 2 /\ executed[1].tool.name = "sum"
C18_WitnessParse ==
    /\ pc = "FAILED" /\ error.type = "JSONDecodeError"
    /\ Len(requests) = 1 /\ i = 0 /\ Len(LastCalls) = 2
    /\ HasTool(LastCalls[2]) /\ Parses(LastCalls[2])

\* The conversation after the first n rounds: the caller's messages, then per
\* round its AI message and the TOOL messages of its calls; and the number of
\* tool calls of those rounds.
ToolMessagesFor(calls) ==
    [k \in 1..Len(calls) |->
        [role |-> "TOOL", content |-> CallToolString(calls[k]), tool_calls |-> Null,
         name |-> calls[k].function.name, tool_call_id |-> calls[k].id]]
RECURSIVE ConversationAfter(_)
ConversationAfter(n) ==
    IF n = 0 THEN given
    ELSE ConversationAfter(n - 1) \o <<AiMessage0(responses[n])>>
           \o ToolMessagesFor(Calls0(responses[n]).val)
RECURSIVE CallsInRounds(_)
CallsInRounds(n) ==
    IF n = 0 THEN 0 ELSE CallsInRounds(n - 1) + Len(Calls0(responses[n]).val)

\* C19: the final AI message is returned and not appended.  When
\* get_completion returns after k tool rounds, the conversation is the
\* original one followed, round by round, by the AI message and the TOOL
\* messages of the round: k messages plus one per tool call longer, with no
\* place in it for the returned message.
C19_FinalMessageNotAppended ==
    pc = "DONE"
    => LET k == Len(responses) - 1 IN
       /\ messages = ConversationAfter(k)
       /\ Len(messages) = Len(given) + k + CallsInRounds(k)
       /\ result = AiMessage0(responses[k + 1])
       /\ ToDicts(messages) = LastRequest.json.messages
C19_Witness ==
    /\ pc = "DONE" /\ Len(requests) = 3
    /\ Len(messages) = Len(given) + 4
    /\ messages[Len(messages)].role = "TOOL"
    /\ result.content = "hello"

\* The tool calls present in a tool round: none when tool_calls is absent.
CallsPresent(response) ==
    IF Calls0(response).some THEN Calls0(response).val ELSE <<>>

\* C20: a 200 response whose first choice has finish_reason "tool_calls" is
\* handled whatever the shape of its message (tool_calls a non-empty list,
\* an empty list, or absent).  When the calls present are well-formed the run
\* does not fail on that response, the conversation gains the AI message and
\* one TOOL message per call present, and the next request carries them.
C20_AnyShapeOfToolRound ==
    \A r \in 1..Len(responses) :
        (AsksTools(responses[r]) /\ FailingCall(CallsPresent(responses[r])) = 0)
        => /\ ~(pc = "FAILED" /\ r = Len(responses))
           /\ r < Len(requests)
                => requests[r + 1].json.messages
                     = requests[r].json.messages \o <<WireAi(responses[r])>>
                         \o WireTools(CallsPresent(responses[r]))

====
